---- MODULE Spec2Model ----
(***************************************************************************)
(* tengok: the parallel walk of scan_dir (workers sending FileRecords     *)
(* through an unbounded channel), the single-consumer fold into Summary    *)
(* and the per-directory totals, the final largest_dir pass, and the pure  *)
(* helpers should_count_lines and count_lines_fast.                        *)
(***************************************************************************)
EXTENDS Naturals, Integers, Sequences, FiniteSets

(* ---------------------------- bounds ---------------------------------- *)
\* number of entries the walker delivers in one scan
MaxEntries == 2
\* number of walker threads
NumWorkers == 2

Workers == 1..NumWorkers
Ids == 1..MaxEntries

(* --------------------------- Option<T> -------------------------------- *)
None == <<>>
Some(x) == <<x>>

(* ------------------------------ paths --------------------------------- *)
\* A path is its directory (a sequence of components), the stem of its
\* file name and the extension as Path::extension() returns it
\* (Option of a sequence of characters).
ExtOf(i) ==
  CASE i % 3 = 1 -> Some(<<"t", "x", "t">>)
    [] i % 3 = 2 -> Some(<<"P", "n", "G">>)
    [] OTHER     -> None

\* the root the walk starts at, and its subdirectory
Root == <<"r">>
SubDir == <<"r", "s">>

\* the directories entry i may lie in
DirChoices(i) ==
  CASE i = 1 -> {Root}
    [] i = 2 -> {Root, SubDir}
    [] OTHER -> {SubDir}

PathOf(d, i) == [dir |-> d, stem |-> i, ext |-> ExtOf(i)]

\* Path::parent(): the path without its final component.  Every path the
\* walker hands out has a final component, so the result is always Some.
parent_of(path) == Some(path.dir)

(* ------------------------- file contents ------------------------------ *)
\* bytes: "n" is the newline byte, "x" any other byte
Contents == { <<>>, <<"n">>, <<"x", "x">>, <<"n", "x">> }
Sizes == { Len(c) : c \in Contents }

\* where an I/O failure hits count_lines_fast: 0 = nowhere, 1 = File::open,
\* k + 1 = the k-th read_until
FailPoints == 0..2

(* ---------------------------- Config ---------------------------------- *)
MaxLineBytesChoices == {0, 1, 2}

Configs ==
  [plain : BOOLEAN, skip_lines : BOOLEAN, force_lines : BOOLEAN,
   max_line_bytes : MaxLineBytesChoices]

\* the configurations the scans are run under: a ceiling of 1 byte, so that
\* files below, at and above the ceiling occur
ScanConfigs == { c \in Configs : c.max_line_bytes = 1 }

BINARY_EXTS == {
    <<"p", "n", "g">>, <<"j", "p", "g">>, <<"j", "p", "e", "g">>,
    <<"g", "i", "f">>, <<"b", "m", "p">>, <<"w", "e", "b", "p">>,
    <<"i", "c", "o">>, <<"s", "v", "g">>, <<"t", "i", "f">>,
    <<"t", "i", "f", "f">>, <<"p", "d", "f">>, <<"z", "i", "p">>,
    <<"g", "z">>, <<"b", "z", "2">>, <<"x", "z">>, <<"7", "z">>,
    <<"t", "a", "r">>, <<"r", "a", "r">>, <<"m", "p", "4">>,
    <<"m", "o", "v">>, <<"a", "v", "i">>, <<"m", "k", "v">>,
    <<"m", "p", "3">>, <<"w", "a", "v">>, <<"f", "l", "a", "c">>,
    <<"o", "g", "g">>, <<"t", "t", "f">>, <<"o", "t", "f">>,
    <<"w", "o", "f", "f">>, <<"w", "o", "f", "f", "2">>, <<"e", "x", "e">>,
    <<"d", "l", "l">>, <<"s", "o">>, <<"d", "y", "l", "i", "b">>,
    <<"c", "l", "a", "s", "s">>, <<"j", "a", "r">>, <<"b", "i", "n">> }

UpperCase ==
  <<"A", "B", "C", "D", "E", "F", "G", "H", "I", "J", "K", "L", "M",
    "N", "O", "P", "Q", "R", "S", "T", "U", "V", "W", "X", "Y", "Z">>
LowerCase ==
  <<"a", "b", "c", "d", "e", "f", "g", "h", "i", "j", "k", "l", "m",
    "n", "o", "p", "q", "r", "s", "t", "u", "v", "w", "x", "y", "z">>

\* str::to_ascii_lowercase
to_ascii_lowercase(s) ==
  [k \in 1..Len(s) |->
     IF \E j \in 1..26 : UpperCase[j] = s[k]
       THEN LowerCase[CHOOSE j \in 1..26 : UpperCase[j] = s[k]]
       ELSE s[k]]

\* should_count_lines with the ceiling tested by >= instead of >
should_count_lines_ge(path, size, cfg) ==
  IF cfg.skip_lines THEN FALSE
  ELSE IF cfg.force_lines THEN TRUE
  ELSE IF cfg.max_line_bytes > 0 /\ size >= cfg.max_line_bytes THEN FALSE
  ELSE IF path.ext # None /\ to_ascii_lowercase(path.ext[1]) \in BINARY_EXTS
    THEN FALSE
  ELSE TRUE

should_count_lines(path, size, cfg) ==
  IF cfg.skip_lines THEN FALSE
  ELSE IF cfg.force_lines THEN TRUE
  ELSE IF cfg.max_line_bytes > 0 /\ size > cfg.max_line_bytes THEN FALSE
  ELSE IF path.ext # None /\ to_ascii_lowercase(path.ext[1]) \in BINARY_EXTS
    THEN FALSE
  ELSE TRUE

(* --------------------------- Config::from_args ------------------------- *)
\* command-line arguments are strings: sequences of characters
MaxArgs == 3

DEFAULT_MAX_LINE_BYTES == 5 * 1024 * 1024

PlainArg == <<"-", "-", "p", "l", "a", "i", "n">>
NoColorsArg == <<"-", "-", "n", "o", "-", "c", "o", "l", "o", "r", "s">>
NoLinesArg == <<"-", "-", "n", "o", "-", "l", "i", "n", "e", "s">>
ForceLinesArg ==
  <<"-", "-", "f", "o", "r", "c", "e", "-", "l", "i", "n", "e", "s">>
MaxLineBytesArg ==
  <<"-", "-", "m", "a", "x", "-", "l", "i", "n", "e", "-",
    "b", "y", "t", "e", "s">>
MaxLineBytesEq == MaxLineBytesArg \o <<"=">>
Dot == <<".">>

\* str::starts_with
starts_with(s, prefix) ==
  Len(s) >= Len(prefix) /\ SubSeq(s, 1, Len(prefix)) = prefix

\* str::split_once(ch).unwrap().1: what follows the first ch of s
split_once_1(s, ch) ==
  LET k == CHOOSE j \in 1..Len(s) :
             s[j] = ch /\ \A h \in 1..(j - 1) : s[h] # ch
  IN  SubSeq(s, k + 1, Len(s))

DigitValue ==
  [c \in {"0", "1", "2", "3", "4", "5", "6", "7", "8", "9"} |->
     CASE c = "0" -> 0 [] c = "1" -> 1 [] c = "2" -> 2 [] c = "3" -> 3
       [] c = "4" -> 4 [] c = "5" -> 5 [] c = "6" -> 6 [] c = "7" -> 7
       [] c = "8" -> 8 [] c = "9" -> 9]

RECURSIVE decimal(_, _)
decimal(digits, acc) ==
  IF digits = <<>> THEN acc
  ELSE decimal(Tail(digits), acc * 10 + DigitValue[Head(digits)])

\* str::parse::<u64>: an optional '+', then one or more decimal digits; None
\* stands for Err.  (The argument strings of ArgTokens are too short to
\* overflow a u64.)
parse_u64(s) ==
  LET digits == IF s # <<>> /\ Head(s) = "+" THEN Tail(s) ELSE s
  IN  IF digits = <<>> \/ \E k \in 1..Len(digits) :
                            digits[k] \notin DOMAIN DigitValue
        THEN None
        ELSE Some(decimal(digits, 0))

\* the locals of from_args before the loop                          (53-57)
ArgDefaults ==
  [root |-> None, plain |-> FALSE, skip_lines |-> FALSE,
   force_lines |-> FALSE, max_line_bytes |-> DEFAULT_MAX_LINE_BYTES]

ArgErr(msg) == [ok |-> FALSE, err |-> msg]

\* the "--force-lines" arm leaving skip_lines as it was
force_lines_arm_keeps_skip(c) == [c EXCEPT !.force_lines = TRUE]

\* the "--force-lines" arm                                          (63-66)
force_lines_arm(c) == [c EXCEPT !.force_lines = TRUE, !.skip_lines = FALSE]

\* the while loop over the arguments and the construction of the Config;
\* returns [ok |-> TRUE, cfg] or [ok |-> FALSE, err]                (59-97)
RECURSIVE from_args_loop(_, _)
from_args_loop(args, c) ==
  IF args = <<>>
    THEN [ok |-> TRUE,
          cfg |-> [c EXCEPT !.root = IF c.root = None THEN Dot ELSE c.root[1]]]
  ELSE LET arg == Head(args)
           rest == Tail(args)
       IN
    IF arg = PlainArg \/ arg = NoColorsArg
      THEN from_args_loop(rest, [c EXCEPT !.plain = TRUE])
    ELSE IF arg = NoLinesArg
      THEN from_args_loop(rest, [c EXCEPT !.skip_lines = TRUE])
    ELSE IF arg = ForceLinesArg
      THEN from_args_loop(rest, force_lines_arm(c))
    ELSE IF arg = MaxLineBytesArg
      THEN IF rest = <<>>
             THEN ArgErr("--max-line-bytes requires a numeric value")
           ELSE IF parse_u64(Head(rest)) = None
             THEN ArgErr("Unable to parse --max-line-bytes")
           ELSE from_args_loop(Tail(rest),
                  [c EXCEPT !.max_line_bytes = parse_u64(Head(rest))[1]])
    ELSE IF starts_with(arg, MaxLineBytesEq)
      THEN IF parse_u64(split_once_1(arg, "=")) = None
             THEN ArgErr("Unable to parse --max-line-bytes")
           ELSE from_args_loop(rest,
                  [c EXCEPT !.max_line_bytes =
                              parse_u64(split_once_1(arg, "="))[1]])
    ELSE IF starts_with(arg, <<"-">>)
      THEN ArgErr("Unknown flag")
    ELSE from_args_loop(rest, [c EXCEPT !.root = Some(arg)])

from_args(args) == from_args_loop(args, ArgDefaults)

\* the argument strings the command lines are made of
ArgTokens ==
  { PlainArg, NoColorsArg, NoLinesArg, ForceLinesArg, MaxLineBytesArg,
    MaxLineBytesEq \o <<"2">>, MaxLineBytesEq, <<"-", "x">>, <<"1">>,
    <<"p">> }

\* the command lines of up to n arguments
RECURSIVE ArgLists(_)
ArgLists(n) ==
  IF n = 0 THEN { <<>> }
  ELSE ArgLists(n - 1) \cup
       { Append(a, t) : a \in { b \in ArgLists(n - 1) : Len(b) = n - 1 },
                        t \in ArgTokens }

(* -------------------------- ellipsize_middle --------------------------- *)
\* a string is the sequence of its chars (s.chars().collect()); "..." is
\* the one char U+2026
Ellipsis == "..."

\* Iterator::take(n) and Iterator::skip(n) over the chars
take(chars, n) == SubSeq(chars, 1, IF n < Len(chars) THEN n ELSE Len(chars))

skip(chars, n) == SubSeq(chars, n + 1, Len(chars))

\* ellipsize_middle giving the odd char of keep to the front
ellipsize_middle_front_heavy(s, max) ==
  IF max = 0 THEN <<>>
  ELSE IF Len(s) <= max THEN s
  ELSE IF max = 1 THEN <<Ellipsis>>
  ELSE LET keep == max - 1
           front == (keep + 1) \div 2
           back == keep - front
           back_start == Len(s) - back
       IN  take(s, front) \o <<Ellipsis>> \o skip(s, back_start)

\*                                                                (506-534)
ellipsize_middle(s, max) ==
  IF max = 0 THEN <<>>
  ELSE IF Len(s) <= max THEN s
  ELSE IF max = 1 THEN <<Ellipsis>>
  ELSE LET keep == max - 1
           front == keep \div 2
           back == keep - front
           back_start == Len(s) - back
       IN  take(s, front) \o <<Ellipsis>> \o skip(s, back_start)

(* ------------------------- count_lines_fast --------------------------- *)
\* BufRead::read_until(b'\n'): the bytes up to and including the first
\* newline, or everything that is left
RECURSIVE read_until(_)
read_until(rest) ==
  IF rest = <<>> THEN <<>>
  ELSE IF Head(rest) = "n" THEN <<"n">>
  ELSE <<Head(rest)>> \o read_until(Tail(rest))

\* the loop of count_lines_fast; nread is the number of read_until calls
\* made so far.  Returns [ok, lines, buf].  Every call starts with
\* buf.clear(); a file shorter than the reader's 64 KiB buffer fails before
\* read_until has appended anything, so buf is empty after an error.
\* the loop counting only the reads that ended in a newline
RECURSIVE count_loop_newlines(_, _, _, _)
count_loop_newlines(rest, lines, nread, fail) ==
  LET chunk == read_until(rest) IN
  IF fail = nread + 2 THEN [ok |-> FALSE, lines |-> 0, buf |-> <<>>]
  ELSE IF Len(chunk) = 0 THEN [ok |-> TRUE, lines |-> lines, buf |-> <<>>]
  ELSE count_loop_newlines(SubSeq(rest, Len(chunk) + 1, Len(rest)),
                           IF chunk[Len(chunk)] = "n" THEN lines + 1
                                                      ELSE lines,
                           nread + 1, fail)

RECURSIVE count_loop(_, _, _, _)
count_loop(rest, lines, nread, fail) ==
  LET chunk == read_until(rest) IN
  IF fail = nread + 2 THEN [ok |-> FALSE, lines |-> 0, buf |-> <<>>]
  ELSE IF Len(chunk) = 0 THEN [ok |-> TRUE, lines |-> lines, buf |-> <<>>]
  ELSE count_loop(SubSeq(rest, Len(chunk) + 1, Len(rest)), lines + 1,
                  nread + 1, fail)

count_lines_fast(content, buf, fail) ==
  IF fail = 1 THEN [ok |-> FALSE, lines |-> 0, buf |-> buf]
  ELSE count_loop(content, 0, 0, fail)

(* ----------------------------- Summary -------------------------------- *)
SummaryDefault ==
  [total_files |-> 0, total_size |-> 0, total_lines |-> 0,
   max_lines_file |-> None, largest_dir |-> None]

\* FoldSummary with total_lines accumulated only where the maximum is
\* replaced
FoldSummaryLinesInBranch(s, record) ==
  LET s1 == [s EXCEPT !.total_files = @ + 1,
                      !.total_size = @ + record.size]
      current_max == IF s1.max_lines_file = None THEN 0
                     ELSE s1.max_lines_file[1].lines
  IN IF record.lines > current_max
       THEN [s1 EXCEPT !.total_lines = @ + record.lines,
                       !.max_lines_file =
               Some([path |-> record.path, size |-> record.size,
                     lines |-> record.lines])]
       ELSE s1

\* FoldSummary replacing the maximum on >= instead of >
FoldSummaryReplaceOnTie(s, record) ==
  LET s1 == [s EXCEPT !.total_files = @ + 1,
                      !.total_size = @ + record.size,
                      !.total_lines = @ + record.lines]
      current_max == IF s1.max_lines_file = None THEN 0
                     ELSE s1.max_lines_file[1].lines
  IN IF record.lines >= current_max /\ record.lines > 0
       THEN [s1 EXCEPT !.max_lines_file =
               Some([path |-> record.path, size |-> record.size,
                     lines |-> record.lines])]
       ELSE s1

\* FoldSummary without the comparison against the current maximum
FoldSummaryAlwaysReplace(s, record) ==
  LET s1 == [s EXCEPT !.total_files = @ + 1,
                      !.total_size = @ + record.size,
                      !.total_lines = @ + record.lines]
  IN IF record.lines > 0
       THEN [s1 EXCEPT !.max_lines_file =
               Some([path |-> record.path, size |-> record.size,
                     lines |-> record.lines])]
       ELSE s1

\* one iteration of the fold over a record, Summary part        (209-225)
FoldSummary(s, record) ==
  LET s1 == [s EXCEPT !.total_files = @ + 1,
                      !.total_size = @ + record.size,
                      !.total_lines = @ + record.lines]
      current_max == IF s1.max_lines_file = None THEN 0
                     ELSE s1.max_lines_file[1].lines
  IN IF record.lines > current_max
       THEN [s1 EXCEPT !.max_lines_file =
               Some([path |-> record.path, size |-> record.size,
                     lines |-> record.lines])]
       ELSE s1

\* AddDirSize adding the size to the directory and to all its ancestors
AddDirSizeRecursive(m, dir, size) ==
  LET up == { SubSeq(dir, 1, k) : k \in 1..Len(dir) } IN
  [d \in DOMAIN m \cup up |->
     (IF d \in DOMAIN m THEN m[d] ELSE 0) + (IF d \in up THEN size ELSE 0)]

\* *dir_sizes.entry(record.parent).or_insert(0) += record.size        (227)
AddDirSize(m, dir, size) ==
  [d \in DOMAIN m \cup {dir} |->
     IF d = dir THEN (IF dir \in DOMAIN m THEN m[dir] ELSE 0) + size
     ELSE m[d]]

\* max_by_key with the comparison turned round (min_by_key)
RECURSIVE min_by_key(_, _, _)
min_by_key(order, m, best) ==
  IF order = <<>> THEN best
  ELSE LET d == Head(order) IN
       IF best = None \/ m[d] < best[1][2]
         THEN min_by_key(Tail(order), m, Some(<<d, m[d]>>))
         ELSE min_by_key(Tail(order), m, best)

\* Iterator::max_by_key over the entries in iteration order: the last
\* entry among those with the greatest key                           (252)
RECURSIVE max_by_key(_, _, _)
max_by_key(order, m, best) ==
  IF order = <<>> THEN best
  ELSE LET d == Head(order) IN
       IF best = None \/ m[d] >= best[1][2]
         THEN max_by_key(Tail(order), m, Some(<<d, m[d]>>))
         ELSE max_by_key(Tail(order), m, best)

RECURSIVE Perms(_)
Perms(S) ==
  IF S = {} THEN {<<>>}
  ELSE UNION { { <<x>> \o p : p \in Perms(S \ {x}) } : x \in S }

spinner_frames == <<"-", "\\", "|", "/">>

(* ------------------------------ state --------------------------------- *)
VARIABLES
  config,       \* the Config scan_dir is given
  pc,           \* where the thread calling scan_dir is
  todo,         \* entries the walker has not handed to a worker yet
  wk,           \* per worker: position in the callback and its locals
  senders,      \* number of live Sender handles of the channel
  rxAlive,      \* the Receiver has not been dropped
  quit_now,     \* a callback has returned WalkState::Quit
  chan,         \* records buffered in the channel, oldest first
  summary,      \* the Summary being folded
  dir_sizes,    \* directory -> cumulative size
  spinner_idx,
  stderr,       \* what has been written to standard error
  sent,         \* history: records whose send succeeded, in order
  processed,    \* history: records the fold has consumed, in order
  run,          \* which call of scan_dir this is
  first,        \* Option: tree and Summary of the first call
  call,         \* Option: a helper function applied on its own, its inputs
  ret,          \* Option: what that application returned
  eligible,     \* history: entries that were regular files with metadata
  stalled,      \* standard error does not accept bytes at the moment
  exit_code,    \* Option: the code the process has exited with
  stdout        \* what has been written to standard output

vars == <<config, pc, todo, wk, senders, rxAlive, quit_now, chan, summary,
          dir_sizes, spinner_idx, stderr, sent, processed, run, first,
          call, ret, eligible, stalled, exit_code, stdout>>

NoPath == [dir |-> <<>>, stem |-> 0, ext |-> None]
\* ftype: what file_type() said of the entry in hand ("none": no entry)
WorkerFresh == [pc |-> "new", path |-> NoPath, ftype |-> "none", size |-> 0,
                lines |-> 0, line_buf |-> <<>>]

EmptyMap == [d \in {} |-> 0]

\* scan_dir starting with the Receiver already dropped
ScanStartRxDropped ==
  /\ pc = "walk"
  /\ todo = Ids
  /\ wk = [w \in Workers |-> WorkerFresh]
  /\ senders = 1
  /\ rxAlive = FALSE
  /\ quit_now = FALSE
  /\ chan = <<>>
  /\ summary = SummaryDefault
  /\ dir_sizes = EmptyMap
  /\ spinner_idx = 0
  /\ stderr = <<>>
  /\ sent = <<>>
  /\ processed = <<>>
  /\ run = 1
  /\ first = None
  /\ eligible = {}
  /\ stalled = FALSE
  /\ exit_code = None
  /\ stdout = <<>>

\* scan_dir has created the channel and built the walker        (141-148)
ScanStart ==
  /\ pc = "walk"
  /\ todo = Ids
  /\ wk = [w \in Workers |-> WorkerFresh]
  /\ senders = 1
  /\ rxAlive = TRUE
  /\ quit_now = FALSE
  /\ chan = <<>>
  /\ summary = SummaryDefault
  /\ dir_sizes = EmptyMap
  /\ spinner_idx = 0
  /\ stderr = <<>>
  /\ sent = <<>>
  /\ processed = <<>>
  /\ run = 1
  /\ first = None
  /\ eligible = {}
  /\ stalled = FALSE
  /\ exit_code = None
  /\ stdout = <<>>

Init ==
  /\ config \in ScanConfigs
  /\ ScanStart
  /\ call = None
  /\ ret = None

(* ------------------- the tree on a second scan ------------------------ *)
\* the records the first call sent for entry i (none during the first)
TreeRecs(i) ==
  IF first = None THEN {} ELSE { r \in first[1].tree : r.path.stem = i }

(* ------------------------------ workers ------------------------------- *)
\* what the walker hands to the callback: Err(_), or a DirEntry whose
\* file_type() is a regular file, a directory, a symlink, a special file
\* or None
EntryResults == {"err", "file", "dir", "symlink", "special", "unknown"}

\* walker.run builds one callback per thread: tx.clone()          (150-154)
WorkerStart(w) ==
  /\ pc = "walk"
  /\ wk[w].pc = "new"
  /\ wk' = [wk EXCEPT ![w].pc = "idle"]
  /\ senders' = senders + 1
  /\ UNCHANGED <<config, pc, todo, rxAlive, quit_now, chan, summary,
                 dir_sizes, spinner_idx, stderr, sent, processed, run, first,
                 call, ret,
                 eligible, stalled, exit_code, stdout>>

\* the callback taking every entry that is not a directory for a file
ReceiveNotDir(w) ==
  /\ pc = "walk"
  /\ wk[w].pc = "idle"
  /\ ~quit_now
  /\ \E i \in todo, res \in EntryResults :
     \E d \in (IF res = "file" THEN DirChoices(i) ELSE {Root}) :
       /\ TreeRecs(i) # {} =>
            res = "file" /\ PathOf(d, i) \in { r.path : r \in TreeRecs(i) }
       /\ todo' = todo \ {i}
       /\ wk' = IF res \in {"file", "symlink", "special"}
                  THEN [wk EXCEPT ![w].pc = "stat", ![w].path = PathOf(d, i),
                                  ![w].ftype = res]
                  ELSE wk
  /\ UNCHANGED <<config, pc, senders, rxAlive, quit_now, chan, summary,
                 dir_sizes, spinner_idx, stderr, sent, processed, run, first,
                 call, ret, eligible, stalled, exit_code, stdout>>

\* the callback is entered with the next entry; error entries and entries
\* that are not regular files return Continue                     (155-165)
Receive(w) ==
  /\ pc = "walk"
  /\ wk[w].pc = "idle"
  /\ ~quit_now
  /\ \E i \in todo, res \in EntryResults :
     \E d \in (IF res = "file" THEN DirChoices(i) ELSE {Root}) :
       /\ TreeRecs(i) # {} =>
            res = "file" /\ PathOf(d, i) \in { r.path : r \in TreeRecs(i) }
       /\ todo' = todo \ {i}
       /\ wk' = IF res = "file"
                  THEN [wk EXCEPT ![w].pc = "stat", ![w].path = PathOf(d, i),
                                  ![w].ftype = res]
                  ELSE wk
  /\ UNCHANGED <<config, pc, senders, rxAlive, quit_now, chan, summary,
                 dir_sizes, spinner_idx, stderr, sent, processed, run, first,
                 call, ret,
                 eligible, stalled, exit_code, stdout>>

\* path.metadata(): Err returns Continue, Ok gives the size       (166-171)
Stat(w) ==
  /\ pc = "walk"
  /\ wk[w].pc = "stat"
  /\ \E meta \in {None} \cup { Some(sz) : sz \in Sizes } :
       /\ run = 2 =>
            IF TreeRecs(wk[w].path.stem) # {}
              THEN meta \in { Some(r.size) : r \in TreeRecs(wk[w].path.stem) }
              ELSE meta = None
       /\ wk' = IF meta = None
                  THEN [wk EXCEPT ![w].pc = "idle", ![w].path = NoPath,
                                  ![w].ftype = "none"]
                  ELSE [wk EXCEPT ![w].pc = "lines", ![w].size = meta[1]]
       /\ eligible' = IF meta # None /\ wk[w].ftype = "file"
                        THEN eligible \cup {wk[w].path.stem}
                        ELSE eligible
  /\ UNCHANGED <<config, pc, todo, senders, rxAlive, quit_now, chan, summary,
                 dir_sizes, spinner_idx, stderr, sent, processed, run, first,
                 call, ret, stalled, exit_code, stdout>>

\* CountLines with a failed count_lines_fast dropping the file (Continue
\* without a record) instead of unwrap_or(0)
CountLinesSkipOnError(w) ==
  /\ pc = "walk"
  /\ wk[w].pc = "lines"
  /\ IF should_count_lines(wk[w].path, wk[w].size, config)
       THEN \E content \in Contents, fail \in FailPoints :
              LET r == count_lines_fast(content, wk[w].line_buf, fail)
              IN /\ Len(content) = wk[w].size
                 /\ run = 2 =>
                      r.lines \in { t.lines : t \in TreeRecs(wk[w].path.stem) }
                 /\ wk' = IF r.ok
                            THEN [wk EXCEPT ![w].pc = "send",
                                            ![w].lines = r.lines,
                                            ![w].line_buf = r.buf]
                            ELSE [wk EXCEPT ![w].pc = "idle",
                                            ![w].path = NoPath,
                                            ![w].ftype = "none",
                                            ![w].size = 0,
                                            ![w].line_buf = r.buf]
       ELSE wk' = [wk EXCEPT ![w].pc = "send", ![w].lines = 0]
  /\ UNCHANGED <<config, pc, todo, senders, rxAlive, quit_now, chan, summary,
                 dir_sizes, spinner_idx, stderr, sent, processed, run, first,
                 call, ret,
                 eligible, stalled, exit_code, stdout>>

\* let lines = if should_count_lines(&path, size, &config) {
\*     count_lines_fast(&path, &mut line_buf).unwrap_or(0) } else { 0 }
\*                                                                (172-176)
CountLines(w) ==
  /\ pc = "walk"
  /\ wk[w].pc = "lines"
  /\ IF should_count_lines(wk[w].path, wk[w].size, config)
       THEN \E content \in Contents, fail \in FailPoints :
              LET r == count_lines_fast(content, wk[w].line_buf, fail)
                  lines == IF r.ok THEN r.lines ELSE 0
              IN /\ Len(content) = wk[w].size
                 /\ run = 2 =>
                      lines \in { t.lines : t \in TreeRecs(wk[w].path.stem) }
                 /\ wk' = [wk EXCEPT ![w].pc = "send", ![w].lines = lines,
                                     ![w].line_buf = r.buf]
       ELSE wk' = [wk EXCEPT ![w].pc = "send", ![w].lines = 0]
  /\ UNCHANGED <<config, pc, todo, senders, rxAlive, quit_now, chan, summary,
                 dir_sizes, spinner_idx, stderr, sent, processed, run, first,
                 call, ret,
                 eligible, stalled, exit_code, stdout>>

\* the record the callback builds                                 (178-189)
RecordOf(w) ==
  LET p == parent_of(wk[w].path) IN
  [path |-> wk[w].path,
   parent |-> IF p = None THEN Root ELSE p[1],
   size |-> wk[w].size,
   lines |-> wk[w].lines]

\* Send with the result of tx.send ignored: Continue either way
SendIgnoringError(w) ==
  /\ pc = "walk"
  /\ wk[w].pc = "send"
  /\ IF rxAlive
       THEN /\ chan' = Append(chan, RecordOf(w))
            /\ sent' = Append(sent, RecordOf(w))
       ELSE UNCHANGED <<chan, sent>>
  /\ wk' = [wk EXCEPT ![w].pc = "idle", ![w].path = NoPath,
                      ![w].ftype = "none", ![w].size = 0, ![w].lines = 0]
  /\ UNCHANGED <<config, pc, todo, senders, rxAlive, quit_now, summary,
                 dir_sizes, spinner_idx, stderr, processed, run, first,
                 call, ret,
                 eligible, stalled, exit_code, stdout>>

\* a worker that adds its record to the totals itself as it sends it
SendAndFold(w) ==
  /\ pc = "walk"
  /\ wk[w].pc = "send"
  /\ rxAlive
  /\ chan' = Append(chan, RecordOf(w))
  /\ sent' = Append(sent, RecordOf(w))
  /\ summary' = [summary EXCEPT !.total_files = @ + 1]
  /\ wk' = [wk EXCEPT ![w].pc = "idle", ![w].path = NoPath,
                      ![w].ftype = "none", ![w].size = 0, ![w].lines = 0]
  /\ UNCHANGED <<config, pc, todo, senders, rxAlive, quit_now, dir_sizes,
                 spinner_idx, stderr, processed, run, first,
                 call, ret, eligible, stalled, exit_code, stdout>>

\* tx.send(record): Ok returns Continue, Err returns Quit         (183-195)
Send(w) ==
  /\ pc = "walk"
  /\ wk[w].pc = "send"
  /\ IF rxAlive
       THEN /\ chan' = Append(chan, RecordOf(w))
            /\ sent' = Append(sent, RecordOf(w))
            /\ wk' = [wk EXCEPT ![w].pc = "idle", ![w].path = NoPath,
                                ![w].ftype = "none", ![w].size = 0,
                                ![w].lines = 0]
            /\ UNCHANGED quit_now
       ELSE /\ wk' = [wk EXCEPT ![w].pc = "quit", ![w].path = NoPath,
                                ![w].ftype = "none", ![w].size = 0,
                                ![w].lines = 0]
            /\ quit_now' = TRUE
            /\ UNCHANGED <<chan, sent>>
  /\ UNCHANGED <<config, pc, todo, senders, rxAlive, summary, dir_sizes,
                 spinner_idx, stderr, processed, run, first,
                 call, ret,
                 eligible, stalled, exit_code, stdout>>

\* a thread leaves the walk when a callback returned Quit or when nothing
\* is left and no other thread is inside a callback; its callback, and
\* with it its Sender clone, is dropped
Finish(w) ==
  /\ pc = "walk"
  /\ \/ wk[w].pc = "quit"
     \/ wk[w].pc = "idle" /\ quit_now
     \/ /\ wk[w].pc = "idle"
        /\ todo = {}
        /\ \A v \in Workers : wk[v].pc \in {"idle", "done", "quit"}
  /\ wk' = [wk EXCEPT ![w].pc = "done"]
  /\ senders' = senders - 1
  /\ UNCHANGED <<config, pc, todo, rxAlive, quit_now, chan, summary,
                 dir_sizes, spinner_idx, stderr, sent, processed, run, first,
                 call, ret,
                 eligible, stalled, exit_code, stdout>>

WorkerStep(w) ==
  \/ WorkerStart(w)
  \/ Receive(w)
  \/ Stat(w)
  \/ CountLines(w)
  \/ Send(w)
  \/ Finish(w)

(* --------------------- the thread calling scan_dir -------------------- *)
\* walker.run returning while threads are still inside their callbacks
WalkReturnEarly ==
  /\ pc = "walk"
  /\ pc' = "drop"
  /\ UNCHANGED <<config, todo, wk, senders, rxAlive, quit_now, chan, summary,
                 dir_sizes, spinner_idx, stderr, sent, processed, run, first,
                 call, ret, eligible, stalled, exit_code, stdout>>

\* walker.run returns once every thread has finished                  (197)
WalkReturn ==
  /\ pc = "walk"
  /\ \A w \in Workers : wk[w].pc = "done"
  /\ pc' = "drop"
  /\ UNCHANGED <<config, todo, wk, senders, rxAlive, quit_now, chan, summary,
                 dir_sizes, spinner_idx, stderr, sent, processed, run, first,
                 call, ret,
                 eligible, stalled, exit_code, stdout>>

\* scan_dir without drop(tx): the original Sender stays alive
DropTxForgotten ==
  /\ pc = "drop"
  /\ pc' = "fold"
  /\ UNCHANGED <<config, todo, wk, senders, rxAlive, quit_now, chan, summary,
                 dir_sizes, spinner_idx, stderr, sent, processed, run, first,
                 call, ret,
                 eligible, stalled, exit_code, stdout>>

\* drop(tx)                                                           (199)
DropTx ==
  /\ pc = "drop"
  /\ senders' = senders - 1
  /\ pc' = "fold"
  /\ UNCHANGED <<config, todo, wk, rxAlive, quit_now, chan, summary,
                 dir_sizes, spinner_idx, stderr, sent, processed, run, first,
                 call, ret,
                 eligible, stalled, exit_code, stdout>>

\* one iteration of `for record in rx`: the fold of the record, and whether
\* a status update is due (last_draw.elapsed() >= 80 ms)         (208-229)
Fold ==
  /\ pc = "fold"
  /\ rxAlive
  /\ chan # <<>>
  /\ LET record == Head(chan) IN
       /\ chan' = Tail(chan)
       /\ processed' = Append(processed, record)
       /\ summary' = FoldSummary(summary, record)
       /\ dir_sizes' = AddDirSize(dir_sizes, record.parent, record.size)
  /\ \E due \in BOOLEAN :
       pc' = IF ~config.plain /\ due THEN "draw" ELSE "fold"
  /\ UNCHANGED <<config, todo, wk, senders, rxAlive, quit_now, sent,
                 spinner_idx, stderr, run, first, call, ret,
                 eligible, stalled, exit_code, stdout>>

\* the status update of that iteration: write!(stderr, ...) and flush(),
\* which return once standard error has taken the bytes          (229-244)
Draw ==
  /\ pc = "draw"
  /\ ~stalled
  /\ spinner_idx' = (spinner_idx + 1) % Len(spinner_frames)
  /\ stderr' = Append(stderr,
         [t |-> "status", frame |-> spinner_frames[spinner_idx' + 1]])
  /\ pc' = "fold"
  /\ UNCHANGED <<config, todo, wk, senders, rxAlive, quit_now, chan, summary,
                 dir_sizes, sent, processed, run, first, call, ret,
                 eligible, stalled, exit_code, stdout>>

\* the iterator ends: nothing buffered and no Sender left; rx is dropped
DrainEnd ==
  /\ pc = "fold"
  /\ rxAlive
  /\ chan = <<>>
  /\ senders = 0
  /\ rxAlive' = FALSE
  /\ pc' = "newline"
  /\ UNCHANGED <<config, todo, wk, senders, quit_now, chan, summary,
                 dir_sizes, spinner_idx, stderr, sent, processed, run, first,
                 call, ret,
                 eligible, stalled, exit_code, stdout>>

\* scan_dir going on to the final pass without ending the status line
NewlineSkipped ==
  /\ pc = "newline"
  /\ pc' = "largest"
  /\ UNCHANGED <<config, todo, wk, senders, rxAlive, quit_now, chan, summary,
                 dir_sizes, spinner_idx, stderr, sent, processed, run, first,
                 call, ret, eligible, stalled, exit_code, stdout>>

\* if !config.plain { writeln!(stderr) }                          (247-250)
Newline ==
  /\ pc = "newline"
  /\ config.plain \/ ~stalled
  /\ stderr' = IF ~config.plain
                 THEN Append(stderr, [t |-> "nl", frame |-> ""])
                 ELSE stderr
  /\ pc' = "largest"
  /\ UNCHANGED <<config, todo, wk, senders, rxAlive, quit_now, chan, summary,
                 dir_sizes, spinner_idx, sent, processed, run, first,
                 call, ret,
                 eligible, stalled, exit_code, stdout>>

\* dir_sizes.into_iter().max_by_key(|(_, s)| *s)                  (252-256)
Largest ==
  /\ pc = "largest"
  /\ \E order \in Perms(DOMAIN dir_sizes) :
       LET best == max_by_key(order, dir_sizes, None) IN
       summary' = IF best # None
                    THEN [summary EXCEPT !.largest_dir = best]
                    ELSE summary
  /\ pc' = "returned"
  /\ UNCHANGED <<config, todo, wk, senders, rxAlive, quit_now, chan,
                 dir_sizes, spinner_idx, stderr, sent, processed, run, first,
                 call, ret,
                 eligible, stalled, exit_code, stdout>>

MainStep ==
  \/ WalkReturn
  \/ DropTx
  \/ Fold
  \/ Draw
  \/ DrainEnd
  \/ Newline
  \/ Largest

Next ==
  \/ \E w \in Workers : WorkerStep(w)
  \/ MainStep

Spec == Init /\ [][Next]_vars

\* scans without --no-lines and --force-lines, with and without --plain
InitDefaultLines ==
  /\ Init
  /\ ~config.skip_lines
  /\ ~config.force_lines

\* every thread that can take a step eventually takes one
FairSpec ==
  /\ InitDefaultLines
  /\ [][Next]_vars
  /\ \A w \in Workers : WF_vars(WorkerStep(w))
  /\ WF_vars(MainStep)

(* ------------- the scan when standard error stops reading ------------ *)
\* the environment: while a status update is being written, whatever reads
\* standard error (a pipe, a terminal under flow control) stops taking
\* bytes, and may take them again later
SinkStalls ==
  /\ pc = "draw"
  /\ ~stalled
  /\ stalled' = TRUE
  /\ UNCHANGED <<config, pc, todo, wk, senders, rxAlive, quit_now, chan,
                 summary, dir_sizes, spinner_idx, stderr, sent, processed,
                 run, first, call, ret, eligible, exit_code, stdout>>

SinkResumes ==
  /\ stalled
  /\ stalled' = FALSE
  /\ UNCHANGED <<config, pc, todo, wk, senders, rxAlive, quit_now, chan,
                 summary, dir_sizes, spinner_idx, stderr, sent, processed,
                 run, first, call, ret, eligible, exit_code, stdout>>

NextStall == Next \/ SinkStalls \/ SinkResumes

\* the threads of the program are scheduled fairly; the reader of standard
\* error is under no obligation
SpecStall ==
  /\ InitDefaultLines
  /\ [][NextStall]_vars
  /\ \A w \in Workers : WF_vars(WorkerStep(w))
  /\ WF_vars(MainStep)

(* ------------- the walk when the consumer has gone away -------------- *)
\* the receiving side of the channel is dropped while the walk is running;
\* from then on tx.send returns Err (the is_err() branch of 183-193)
ReceiverDropped ==
  /\ pc = "walk"
  /\ rxAlive
  /\ rxAlive' = FALSE
  /\ UNCHANGED <<config, pc, todo, wk, senders, quit_now, chan, summary,
                 dir_sizes, spinner_idx, stderr, sent, processed, run, first,
                 call, ret,
                 eligible, stalled, exit_code, stdout>>

NextRxGone == Next \/ ReceiverDropped

SpecRxGone == InitDefaultLines /\ [][NextRxGone]_vars

(* ------------------ should_count_lines on its own -------------------- *)
ClassifierExts ==
  { None, Some(<<"t", "x", "t">>), Some(<<"P", "n", "G">>),
    Some(<<"G", "Z">>), Some(<<"p", "n">>) }

ClassifierSizes == 0..3

ClassifierCalls ==
  { [path |-> [dir |-> Root, stem |-> 1, ext |-> e], size |-> sz, cfg |-> c] :
      e \in ClassifierExts, sz \in ClassifierSizes, c \in Configs }

InitClassify ==
  /\ call \in { Some(a) : a \in ClassifierCalls }
  /\ config = call[1].cfg
  /\ ScanStart
  /\ ret = None

ApplyClassifier ==
  /\ call # None
  /\ ret = None
  /\ ret' = Some(should_count_lines(call[1].path, call[1].size, call[1].cfg))
  /\ UNCHANGED <<config, pc, todo, wk, senders, rxAlive, quit_now, chan,
                 summary, dir_sizes, spinner_idx, stderr, sent, processed,
                 run, first, call,
                 eligible, stalled, exit_code, stdout>>

SpecClassify == InitClassify /\ [][ApplyClassifier]_vars

(* ------------------------------- main --------------------------------- *)
\* what the process is started with: a command line, and whether the path
\* it names exists.  Two command lines are accepted (the defaults; plain
\* output of a named path), the others are one of each kind of error.
CommandLines ==
  { <<>>, <<PlainArg, <<"p">>>>, <<<<"-", "x">>>>, <<MaxLineBytesArg>>,
    <<MaxLineBytesArg, <<"x">>>>, <<MaxLineBytesEq>>,
    <<NoLinesArg, <<"-", "-", "n", "o">>>> }

InitMain ==
  /\ call \in { Some([args |-> a, root_exists |-> b]) :
                   a \in CommandLines, b \in BOOLEAN }
  /\ ret = None
  /\ config = None
  /\ pc = "args"
  /\ todo = Ids
  /\ wk = [w \in Workers |-> WorkerFresh]
  /\ senders = 0
  /\ rxAlive = FALSE
  /\ quit_now = FALSE
  /\ chan = <<>>
  /\ summary = SummaryDefault
  /\ dir_sizes = EmptyMap
  /\ spinner_idx = 0
  /\ stderr = <<>>
  /\ sent = <<>>
  /\ processed = <<>>
  /\ run = 1
  /\ first = None
  /\ eligible = {}
  /\ stalled = FALSE
  /\ exit_code = None
  /\ stdout = <<>>

\* from_args going on with the defaults when the command line is in error
ParseArgsLenient ==
  /\ pc = "args"
  /\ LET r == from_args(call[1].args) IN
       /\ config' = IF r.ok THEN r.cfg
                            ELSE [ArgDefaults EXCEPT !.root = Dot]
       /\ pc' = "root"
  /\ UNCHANGED <<todo, wk, senders, rxAlive, quit_now, chan, summary,
                 dir_sizes, spinner_idx, stderr, sent, processed, run, first,
                 call, ret, eligible, stalled, exit_code, stdout>>

\* main builds the Config; on Err it prints the error and the usage text to
\* standard error and exits with code 1                          (121-128)
ParseArgs ==
  /\ pc = "args"
  /\ LET r == from_args(call[1].args) IN
       IF r.ok
         THEN /\ config' = r.cfg
              /\ pc' = "root"
              /\ UNCHANGED <<stderr, exit_code>>
         ELSE /\ stderr' = stderr \o <<[t |-> "error", frame |-> r.err],
                                       [t |-> "usage", frame |-> ""]>>
              /\ exit_code' = Some(1)
              /\ pc' = "exited"
              /\ UNCHANGED config
  /\ UNCHANGED <<todo, wk, senders, rxAlive, quit_now, chan, summary,
                 dir_sizes, spinner_idx, sent, processed, run, first,
                 call, ret, eligible, stalled, stdout>>

\* if !config.root.exists(): message to standard error, exit code 1
\*                                                                (130-133)
CheckRoot ==
  /\ pc = "root"
  /\ IF call[1].root_exists
       THEN /\ pc' = "scan"
            /\ UNCHANGED <<stderr, exit_code>>
       ELSE /\ stderr' = Append(stderr,
                   [t |-> "error", frame |-> "Path does not exist"])
            /\ exit_code' = Some(1)
            /\ pc' = "exited"
  /\ UNCHANGED <<config, todo, wk, senders, rxAlive, quit_now, chan, summary,
                 dir_sizes, spinner_idx, sent, processed, run, first,
                 call, ret, eligible, stalled, stdout>>

\* main calls scan_dir, which creates the channel and builds the walker
\*                                                           (135, 141-148)
ScanEnter ==
  /\ pc = "scan"
  /\ senders' = 1
  /\ rxAlive' = TRUE
  /\ pc' = "walk"
  /\ UNCHANGED <<config, todo, wk, quit_now, chan, summary, dir_sizes,
                 spinner_idx, stderr, sent, processed, run, first,
                 call, ret, eligible, stalled, exit_code, stdout>>

\* print_report writes the report of the Summary to standard output
\*                                                           (136, 295-459)
PrintReport ==
  /\ pc = "returned"
  /\ stdout' = Append(stdout, [t |-> "report", summary |-> summary])
  /\ pc' = "reported"
  /\ UNCHANGED <<config, todo, wk, senders, rxAlive, quit_now, chan, summary,
                 dir_sizes, spinner_idx, stderr, sent, processed, run, first,
                 call, ret, eligible, stalled, exit_code>>

\* main returns Ok(()): the process exits with code 0                 (138)
Exit ==
  /\ pc = "reported"
  /\ exit_code' = Some(0)
  /\ pc' = "exited"
  /\ UNCHANGED <<config, todo, wk, senders, rxAlive, quit_now, chan, summary,
                 dir_sizes, spinner_idx, stderr, sent, processed, run, first,
                 call, ret, eligible, stalled, stdout>>

NextMain == ParseArgs \/ CheckRoot \/ ScanEnter \/ Next \/ PrintReport \/ Exit

SpecMain == InitMain /\ [][NextMain]_vars

\* count_lines_fast applied on its own to a readable file: every content
\* of up to MaxContentLen bytes ("n" is the newline byte, "x" any other),
\* with every scratch buffer a previous file can have left behind
MaxContentLen == 3

RECURSIVE ContentsUpTo(_)
ContentsUpTo(n) ==
  IF n = 0 THEN { <<>> }
  ELSE ContentsUpTo(n - 1) \cup
       { Append(c, b) : c \in { d \in ContentsUpTo(n - 1) : Len(d) = n - 1 },
                        b \in {"n", "x"} }

InitCount ==
  /\ call \in { Some([content |-> c, buf |-> b]) :
                   c \in ContentsUpTo(MaxContentLen), b \in Contents }
  /\ config \in ScanConfigs
  /\ ~config.plain /\ ~config.skip_lines /\ ~config.force_lines
  /\ ScanStart
  /\ ret = None

ApplyCount ==
  /\ call # None
  /\ ret = None
  /\ ret' = Some(count_lines_fast(call[1].content, call[1].buf, 0))
  /\ UNCHANGED <<config, pc, todo, wk, senders, rxAlive, quit_now, chan,
                 summary, dir_sizes, spinner_idx, stderr, sent, processed,
                 run, first, call,
                 eligible, stalled, exit_code, stdout>>

SpecCount == InitCount /\ [][ApplyCount]_vars

\* ellipsize_middle applied on its own: every string of up to MaxStrLen
\* chars over two letters, with every width from 0 to one more than that
MaxStrLen == 4

RECURSIVE StringsUpTo(_)
StringsUpTo(n) ==
  IF n = 0 THEN { <<>> }
  ELSE StringsUpTo(n - 1) \cup
       { Append(c, b) : c \in { d \in StringsUpTo(n - 1) : Len(d) = n - 1 },
                        b \in {"a", "b"} }

InitEllipsize ==
  /\ call \in { Some([s |-> str, max |-> m]) :
                   str \in StringsUpTo(MaxStrLen), m \in 0..(MaxStrLen + 1) }
  /\ config \in ScanConfigs
  /\ ~config.plain /\ ~config.skip_lines /\ ~config.force_lines
  /\ ScanStart
  /\ ret = None

ApplyEllipsize ==
  /\ call # None
  /\ ret = None
  /\ ret' = Some(ellipsize_middle(call[1].s, call[1].max))
  /\ UNCHANGED <<config, pc, todo, wk, senders, rxAlive, quit_now, chan,
                 summary, dir_sizes, spinner_idx, stderr, sent, processed,
                 run, first, call,
                 eligible, stalled, exit_code, stdout>>

SpecEllipsize == InitEllipsize /\ [][ApplyEllipsize]_vars

\* Config::from_args applied on its own to a command line
InitArgs ==
  /\ call \in { Some(a) : a \in ArgLists(MaxArgs) }
  /\ config \in ScanConfigs
  /\ ~config.plain /\ ~config.skip_lines /\ ~config.force_lines
  /\ ScanStart
  /\ ret = None

ApplyFromArgs ==
  /\ call # None
  /\ ret = None
  /\ ret' = Some(from_args(call[1]))
  /\ UNCHANGED <<config, pc, todo, wk, senders, rxAlive, quit_now, chan,
                 summary, dir_sizes, spinner_idx, stderr, sent, processed,
                 run, first, call,
                 eligible, stalled, exit_code, stdout>>

SpecArgs == InitArgs /\ [][ApplyFromArgs]_vars

(* ------------------- a second scan of the same tree ------------------- *)
\* the program is run again with the same Config on the unchanged tree:
\* the files are those the first scan sent a record for, with the same
\* path, size and line count (TreeRecs)
ScanAgain ==
  /\ pc = "returned"
  /\ run = 1
  /\ run' = 2
  /\ first' = Some([tree |-> { sent[k] : k \in 1..Len(sent) },
                    summary |-> summary])
  /\ pc' = "walk"
  /\ todo' = Ids
  /\ wk' = [w \in Workers |-> WorkerFresh]
  /\ senders' = 1
  /\ rxAlive' = TRUE
  /\ quit_now' = FALSE
  /\ chan' = <<>>
  /\ summary' = SummaryDefault
  /\ dir_sizes' = EmptyMap
  /\ spinner_idx' = 0
  /\ stderr' = <<>>
  /\ sent' = <<>>
  /\ processed' = <<>>
  /\ eligible' = {}
  /\ UNCHANGED <<config, call, ret, stalled, exit_code, stdout>>

NextRerun == Next \/ ScanAgain

SpecRerun == Init /\ [][NextRerun]_vars

(* ====================== properties of the scan ======================= *)
RECURSIVE SumSize(_)
SumSize(q) == IF q = <<>> THEN 0 ELSE Head(q).size + SumSize(Tail(q))

RECURSIVE SumLines(_)
SumLines(q) == IF q = <<>> THEN 0 ELSE Head(q).lines + SumLines(Tail(q))

RECURSIVE MaxLines(_)
MaxLines(q) ==
  IF q = <<>> THEN 0
  ELSE LET m == MaxLines(Tail(q)) IN
       IF Head(q).lines > m THEN Head(q).lines ELSE m

\* sum of the sizes of the records of q whose parent is d
RECURSIVE DirTotal(_, _)
DirTotal(q, d) ==
  IF q = <<>> THEN 0
  ELSE (IF Head(q).parent = d THEN Head(q).size ELSE 0) + DirTotal(Tail(q), d)

Parents(q) == { q[k].parent : k \in 1..Len(q) }

\* C1: every sent record is folded exactly once: what was sent is what has
\* been folded followed by what is still buffered, the three totals are the
\* count and the sums over the folded records, and when scan_dir returns
\* they are the count and the sums over everything ever sent.
C1_FoldedExactlyOnce ==
  /\ sent = processed \o chan
  /\ summary.total_files = Len(processed)
  /\ summary.total_size = SumSize(processed)
  /\ summary.total_lines = SumLines(processed)
  /\ pc = "returned" =>
       /\ summary.total_files = Len(sent)
       /\ summary.total_size = SumSize(sent)
       /\ summary.total_lines = SumLines(sent)

\* two records with sizes and lines above 0 were sent and scan_dir returned
C1_Witness ==
  /\ pc = "returned"
  /\ Len(sent) = 2
  /\ \A k \in 1..2 : sent[k].size > 0 /\ sent[k].lines > 0
  /\ summary.total_files = 2

C2_State ==
  /\ summary.max_lines_file = None <=> MaxLines(processed) = 0
  /\ summary.max_lines_file # None =>
       summary.max_lines_file[1].lines = MaxLines(processed)
  /\ config.skip_lines =>
       summary.max_lines_file = None /\ summary.total_lines = 0

C2_Step ==
  summary.max_lines_file # None =>
    /\ summary'.max_lines_file # None
    /\ summary'.max_lines_file[1].lines >= summary.max_lines_file[1].lines

\* C2: max_lines_file is unset exactly while no folded record has lines > 0,
\* once set its lines is the maximum of lines over the folded records and
\* no fold step lowers it; with skip_lines it stays unset and total_lines
\* stays 0.
C2_MaxLinesTracked == [](C2_State) /\ [][C2_Step]_vars

\* the maximum was set by a record of 1 line and then raised by one of 2
C2_Witness ==
  /\ Len(processed) = 2
  /\ processed[1].lines = 1
  /\ processed[2].lines = 2
  /\ summary.max_lines_file # None
  /\ summary.max_lines_file[1].lines = 2

\* C3: largest_dir is unset until the final pass has run; when scan_dir
\* returns it is unset iff no record was folded, and otherwise it is (d, s)
\* with d the parent of a folded record, s the cumulative size of d, and s
\* at least the cumulative size of every directory.
C3_LargestDir ==
  /\ pc # "returned" => summary.largest_dir = None
  /\ pc = "returned" =>
       /\ summary.largest_dir = None <=> processed = <<>>
       /\ summary.largest_dir # None =>
            LET d == summary.largest_dir[1][1]
                sz == summary.largest_dir[1][2]
            IN /\ d \in Parents(processed)
               /\ sz = DirTotal(processed, d)
               /\ d \in DOMAIN dir_sizes /\ sz = dir_sizes[d]
               /\ \A e \in Parents(processed) : DirTotal(processed, e) <= sz

\* two directories with different totals, the greater one was picked
C3_Witness ==
  /\ pc = "returned"
  /\ summary.largest_dir # None
  /\ \E e \in DOMAIN dir_sizes : dir_sizes[e] < summary.largest_dir[1][2]

\* C4: a second scan of the same unchanged tree returns the same
\* total_files, total_size, total_lines and largest_dir (directory and size)
\* as the first, whatever the arrival order and the order of the final pass.
C4_SameSummary ==
  (run = 2 /\ pc = "returned"
     /\ { sent[k] : k \in 1..Len(sent) } = first[1].tree) =>
    /\ summary.total_files = first[1].summary.total_files
    /\ summary.total_size = first[1].summary.total_size
    /\ summary.total_lines = first[1].summary.total_lines
    /\ summary.largest_dir = first[1].summary.largest_dir

\* what does agree between the two scans: the totals and the size of the
\* largest directory
C4_SameTotals ==
  (run = 2 /\ pc = "returned") =>
    /\ { sent[k] : k \in 1..Len(sent) } = first[1].tree
    /\ summary.total_files = first[1].summary.total_files
    /\ summary.total_size = first[1].summary.total_size
    /\ summary.total_lines = first[1].summary.total_lines
    /\ (summary.largest_dir = None) = (first[1].summary.largest_dir = None)
    /\ summary.largest_dir # None =>
         summary.largest_dir[1][2] = first[1].summary.largest_dir[1][2]

C5_State ==
  /\ \A w \in Workers : wk[w].pc = "send" => ENABLED Send(w)
  /\ pc = "fold" => senders = 0 /\ \A w \in Workers : wk[w].pc = "done"
  /\ ~(pc = "fold" /\ rxAlive /\ chan = <<>> /\ senders > 0)
  /\ pc # "returned" => ENABLED Next
  /\ pc = "returned" =>
       /\ \A w \in Workers : wk[w].pc = "done"
       /\ senders = 0
       /\ chan = <<>>
       /\ processed = sent

\* C5: scan_dir eventually returns under every scheduling: a worker at its
\* send is never blocked, every worker finishes, every Sender is released
\* before the drain loop starts, the loop consumes every buffered record and
\* stops, and no state short of the return is without a next step.
C5_ScanReturns == <>(pc = "returned") /\ [](C5_State)

\* scan_dir has returned after both workers sent a record
C5_Witness ==
  /\ pc = "returned"
  /\ senders = 0
  /\ Len(processed) = 2
  /\ processed[1].path.stem = 2

RECURSIVE SumValues(_, _)
SumValues(m, D) ==
  IF D = {} THEN 0
  ELSE LET d == CHOOSE x \in D : TRUE IN m[d] + SumValues(m, D \ {d})

\* C6: after every fold step total_size is the sum of the values of
\* dir_sizes; the map has an entry exactly for the parents of the folded
\* records, each entry is the sum of the sizes of the folded records with
\* that parent, and a record's parent is the directory it lies in, never an
\* ancestor of it.
C6_DirTotalsAdditive ==
  /\ summary.total_size = SumValues(dir_sizes, DOMAIN dir_sizes)
  /\ DOMAIN dir_sizes = Parents(processed)
  /\ \A d \in DOMAIN dir_sizes : dir_sizes[d] = DirTotal(processed, d)
  /\ \A k \in 1..Len(processed) :
       processed[k].parent = processed[k].path.dir

\* a file in the root and a larger one in its subdirectory were folded: the
\* root's total does not contain the subdirectory's
C6_Witness ==
  /\ Len(processed) = 2
  /\ DOMAIN dir_sizes = {Root, SubDir}
  /\ dir_sizes[Root] = 1
  /\ dir_sizes[SubDir] = 2
  /\ summary.total_size = 3

C7_State ==
  /\ summary.total_lines = SumLines(processed)
  /\ summary.max_lines_file # None =>
       \E k \in 1..Len(processed) :
         /\ summary.max_lines_file[1] =
              [path |-> processed[k].path, size |-> processed[k].size,
               lines |-> processed[k].lines]
         /\ \A j \in 1..Len(processed) :
              /\ processed[j].lines <= processed[k].lines
              /\ j < k => processed[j].lines < processed[k].lines

C7_Step ==
  (/\ pc = "fold"
   /\ chan # <<>>
   /\ summary.max_lines_file # None
   /\ Head(chan).lines <= summary.max_lines_file[1].lines) =>
    summary'.max_lines_file = summary.max_lines_file

\* C7: max_lines_file is replaced only on strict improvement: it is the
\* first folded record among those with the maximum line count, a fold
\* step over a record with an equal (or smaller) count leaves it alone,
\* and total_lines sums the lines of all folded records, tied ones too.
C7_FirstOfTiesKept == [](C7_State) /\ [][C7_Step]_vars

\* two records tie at 2 lines; the one folded first is max_lines_file
C7_Witness ==
  /\ Len(processed) = 2
  /\ processed[1].lines = 2
  /\ processed[2].lines = 2
  /\ summary.max_lines_file # None
  /\ summary.max_lines_file[1].path = processed[1].path
  /\ summary.total_lines = 4

\* two characters that are the same ASCII letter in either case, or equal
SameIgnoringCase(a, b) ==
  \/ a = b
  \/ \E j \in 1..26 : {a, b} = {UpperCase[j], LowerCase[j]}

\* the extension is on the binary denylist, compared case-insensitively
Denylisted(ext) ==
  /\ ext # None
  /\ \E b \in BINARY_EXTS :
       /\ Len(b) = Len(ext[1])
       /\ \A k \in 1..Len(b) : SameIgnoringCase(ext[1][k], b[k])

\* C8: should_count_lines applies its rules in order, first match wins:
\* skip_lines gives false; else force_lines gives true; else a size above a
\* non-zero max_line_bytes gives false (a size equal to it does not, and 0
\* disables the ceiling); else a denylisted extension, compared
\* case-insensitively, gives false; otherwise true.
C8_ClassifierRules ==
  ret # None =>
    LET a == call[1]
        c == call[1].cfg
        over == c.max_line_bytes > 0 /\ a.size > c.max_line_bytes
    IN /\ c.skip_lines => ret[1] = FALSE
       /\ (~c.skip_lines /\ c.force_lines) => ret[1] = TRUE
       /\ (~c.skip_lines /\ ~c.force_lines /\ over) => ret[1] = FALSE
       /\ (~c.skip_lines /\ ~c.force_lines /\ ~over /\ Denylisted(a.path.ext))
            => ret[1] = FALSE
       /\ (~c.skip_lines /\ ~c.force_lines /\ ~over /\ ~Denylisted(a.path.ext))
            => ret[1] = TRUE
       /\ (~c.skip_lines /\ ~c.force_lines /\ ~Denylisted(a.path.ext)
             /\ (a.size = c.max_line_bytes \/ c.max_line_bytes = 0))
            => ret[1] = TRUE

\* a file of exactly max_line_bytes bytes, no flag set, is counted
C8_Witness ==
  /\ ret = Some(TRUE)
  /\ call[1].cfg.max_line_bytes = 2
  /\ call[1].size = 2
  /\ ~call[1].cfg.skip_lines
  /\ ~call[1].cfg.force_lines

C9_State ==
  /\ \A w \in Workers :
       /\ wk[w].pc = "send" => ENABLED Send(w)
       /\ wk[w].pc = "quit" => quit_now /\ ENABLED Finish(w)
  /\ sent = processed \o chan
  /\ summary.total_files = Len(processed)

C9_Step ==
  \A w \in Workers :
    /\ (wk[w].pc = "send" /\ ~rxAlive /\ wk'[w] # wk[w]) =>
         /\ wk'[w].pc = "quit"
         /\ quit_now'
         /\ sent' = sent
         /\ chan' = chan
         /\ summary' = summary
         /\ dir_sizes' = dir_sizes
    /\ wk[w].pc \in {"quit", "done"} =>
         /\ wk'[w].pc \in {"quit", "done"}
         /\ wk'[w].path = NoPath

\* C9: a send that fails because the receiver was dropped makes the
\* callback return Quit: the worker is not blocked at the send, the record
\* reaches neither the channel nor any Summary, and from then on the worker
\* takes no entry and sends nothing; it can always go on to finish.
C9_FailedSendQuits == [](C9_State) /\ [][C9_Step]_vars

\* a send failed: the walk has returned with an entry still undelivered and
\* nothing folded
C9_Witness ==
  /\ ~rxAlive
  /\ quit_now
  /\ pc = "drop"
  /\ todo # {}
  /\ summary = SummaryDefault

\* the record is one whose line count was attempted and failed: the file is
\* classified for counting and is not empty, yet it carries 0 lines
FailedCount(r) ==
  /\ should_count_lines(r.path, r.size, config)
  /\ r.size > 0
  /\ r.lines = 0

C10_State ==
  /\ ~quit_now
  /\ \A w \in Workers : wk[w].pc # "quit"
  /\ pc = "returned" => todo = {} /\ processed = sent

C10_Step ==
  /\ (todo' # todo /\ wk' = wk) =>
       sent' = sent /\ chan' = chan /\ ~quit_now'
  /\ \A w \in Workers :
       /\ (wk[w].pc = "stat" /\ wk'[w] # wk[w]) =>
            /\ sent' = sent /\ chan' = chan /\ ~quit_now'
            /\ \/ wk'[w].pc = "idle"
               \/ wk'[w].pc = "lines" /\ wk'[w].path = wk[w].path
       /\ (wk[w].pc = "lines" /\ wk'[w] # wk[w]) =>
            /\ wk'[w].pc = "send"
            /\ wk'[w].path = wk[w].path
            /\ wk'[w].size = wk[w].size
            /\ ~should_count_lines(wk[w].path, wk[w].size, config)
                 => wk'[w].lines = 0
       /\ (wk[w].pc = "send" /\ wk'[w] # wk[w]) =>
            /\ wk'[w].pc = "idle"
            /\ sent' = Append(sent, [path |-> wk[w].path,
                                     parent |-> wk[w].path.dir,
                                     size |-> wk[w].size,
                                     lines |-> wk[w].lines])

\* C10: failures are recovered locally: an entry that is an error or not a
\* regular file, and a file whose metadata lookup fails, produce no record
\* and leave the worker ready for the next entry; a file that reached the
\* line count always goes on to send a record with the size obtained (with
\* 0 lines when the count failed); no callback returns Quit, every entry is
\* delivered, and every record sent is folded by the time scan_dir returns.
C10_FailuresRecovered == [](C10_State) /\ [][C10_Step]_vars

\* scan_dir returned with a record whose line count failed (size kept,
\* 0 lines) next to a record of another file that was counted
C10_Witness ==
  /\ pc = "returned"
  /\ Len(processed) = 2
  /\ \E k \in 1..2 : FailedCount(processed[k])
  /\ \E k \in 1..2 : processed[k].lines > 0
  /\ summary.total_files = 2

(* ------------------------------- C11 ---------------------------------- *)
\* the records sent so far for entry i
RecordsOf(i) == { k \in 1..Len(sent) : sent[k].path.stem = i }

C11_State ==
  /\ \A i \in Ids :
       /\ Cardinality(RecordsOf(i)) <= 1
       /\ RecordsOf(i) # {} => i \in eligible
       /\ pc = "returned" => (RecordsOf(i) # {} <=> i \in eligible)
  /\ \A w \in Workers :
       wk[w].pc \in {"lines", "send"} =>
         wk[w].ftype = "file" /\ wk[w].path.stem \in eligible
  /\ pc = "returned" =>
       /\ summary.total_files = Cardinality(eligible)
       /\ eligible = {} => dir_sizes = EmptyMap

C11_Step ==
  /\ (todo' # todo /\ wk' = wk) =>
       UNCHANGED <<chan, sent, summary, dir_sizes, eligible>>
  /\ \A w \in Workers :
       (wk[w].pc = "stat" /\ wk'[w].pc = "idle") =>
         UNCHANGED <<chan, sent, summary, dir_sizes, eligible>>

\* C11: a worker sends exactly one record for an entry if and only if the
\* entry is a regular file whose metadata lookup succeeded; an entry that is
\* an error, a directory, a symlink, a special file or of unknown type, and a
\* file whose metadata lookup fails, never produces a record and changes
\* neither the totals nor the per-directory totals.
C11_OneRecordPerRegularFile == [](C11_State) /\ [][C11_Step]_vars

\* scan_dir returned after every entry was delivered, one of them a regular
\* file with metadata (one record, counted) and the other not (no record)
C11_Witness ==
  /\ pc = "returned"
  /\ todo = {}
  /\ Cardinality(eligible) = 1
  /\ \E i \in Ids : i \notin eligible /\ RecordsOf(i) = {}
  /\ Len(sent) = 1
  /\ summary.total_files = 1

(* ------------------------------- C12 ---------------------------------- *)
\* the position of the last occurrence of the argument t in args, 0 if none
LastOf(args, t) ==
  IF \E k \in 1..Len(args) : args[k] = t
    THEN CHOOSE k \in 1..Len(args) :
           args[k] = t /\ \A j \in (k + 1)..Len(args) : args[j] # t
    ELSE 0

\* the files the classifier is asked about
FilesAsked ==
  { [path |-> [dir |-> Root, stem |-> 1, ext |-> e], size |-> sz] :
      e \in ClassifierExts, sz \in ClassifierSizes }

\* C12: when from_args accepts a command line, the later of --no-lines and
\* --force-lines decides: with --force-lines after every --no-lines,
\* skip_lines is false, force_lines is true and should_count_lines is true
\* for every file; with --no-lines last, should_count_lines is false for
\* every file; force_lines is set exactly when --force-lines was given.
C12_LaterFlagDecides ==
  (call # None /\ ret # None /\ ret[1].ok) =>
    LET args == call[1]
        cfg == ret[1].cfg
        nl == LastOf(args, NoLinesArg)
        fl == LastOf(args, ForceLinesArg)
    IN  /\ cfg.force_lines <=> fl > 0
        /\ cfg.skip_lines <=> nl > fl
        /\ fl > nl =>
             \A f \in FilesAsked : should_count_lines(f.path, f.size, cfg)
        /\ nl > fl =>
             \A f \in FilesAsked : ~should_count_lines(f.path, f.size, cfg)

\* a command line with --no-lines, then --force-lines, was accepted
C12_Witness ==
  /\ call # None /\ ret # None /\ ret[1].ok
  /\ LastOf(call[1], NoLinesArg) > 0
  /\ LastOf(call[1], ForceLinesArg) > LastOf(call[1], NoLinesArg)
  /\ ~ret[1].cfg.skip_lines

(* ------------------------------- C13 ---------------------------------- *)
KnownFlags ==
  { PlainArg, NoColorsArg, NoLinesArg, ForceLinesArg, MaxLineBytesArg }

\* a command line with a configuration error: an unrecognised argument that
\* starts with '-', --max-line-bytes without a value, or a --max-line-bytes
\* value that is not an unsigned integer
ArgsInError(args) ==
  \E k \in 1..Len(args) :
    \/ /\ starts_with(args[k], <<"-">>)
       /\ args[k] \notin KnownFlags
       /\ ~starts_with(args[k], MaxLineBytesEq)
    \/ /\ args[k] = MaxLineBytesArg
       /\ k = Len(args) \/ parse_u64(args[k + 1]) = None
    \/ /\ starts_with(args[k], MaxLineBytesEq)
       /\ parse_u64(SubSeq(args[k], Len(MaxLineBytesEq) + 1, Len(args[k])))
            = None

NothingStarted ==
  /\ \A w \in Workers : wk[w].pc = "new"
  /\ todo = Ids
  /\ senders = 0
  /\ sent = <<>> /\ chan = <<>> /\ processed = <<>>
  /\ summary = SummaryDefault /\ dir_sizes = EmptyMap
  /\ stdout = <<>>

C13_State ==
  /\ exit_code \in {None, Some(0), Some(1)}
  /\ exit_code # None <=> pc = "exited"
  /\ (ArgsInError(call[1].args) /\ pc # "args") =>
       exit_code = Some(1) /\ NothingStarted
  /\ (~call[1].root_exists /\ pc \notin {"args", "root"}) =>
       exit_code = Some(1) /\ NothingStarted
  /\ exit_code = Some(1) =>
       /\ NothingStarted
       /\ stderr # <<>> /\ stderr[1].t = "error"
  /\ exit_code = Some(0) =>
       /\ ~ArgsInError(call[1].args) /\ call[1].root_exists
       /\ \A w \in Workers : wk[w].pc = "done"
       /\ todo = {} /\ chan = <<>> /\ processed = sent
       /\ stdout = <<[t |-> "report", summary |-> summary]>>

C13_Step ==
  /\ pc' = "walk" /\ pc # "walk" =>
       ~ArgsInError(call[1].args) /\ call[1].root_exists
  /\ exit_code' # exit_code =>
       \/ exit_code' = Some(1) /\ pc \in {"args", "root"}
       \/ exit_code' = Some(0) /\ pc = "reported"

\* C13: on a configuration error (an unrecognised argument starting with
\* '-', --max-line-bytes without a value or with a value that does not
\* parse) or a root path that does not exist, the process exits with code 1
\* before the traversal begins: no worker was started, no record produced
\* and no report printed.  Exit code 0 is reached only from a scan that has
\* returned and whose report has been printed.
C13_ErrorsExitBeforeTraversal == [](C13_State) /\ [][C13_Step]_vars

\* the process has exited with code 1 on a command line whose path exists
\* but whose --max-line-bytes value does not parse
C13_Witness ==
  /\ exit_code = Some(1)
  /\ call[1].root_exists
  /\ call[1].args = <<MaxLineBytesArg, <<"x">>>>
  /\ NothingStarted

(* ------------------------------- C14 ---------------------------------- *)
\* C14: the progress reporter never blocks the fold loop: in non-plain
\* mode, when standard error stalls while a status update is being written,
\* the main thread still goes on to fold every remaining record and
\* scan_dir returns.
C14_StalledSinkDoesNotBlock ==
  (pc = "draw" /\ stalled) ~> (pc = "returned" /\ processed = sent)

(* ------------------------------- C15 ---------------------------------- *)
\* the entries of kind t written to standard error
Written(t) == { k \in 1..Len(stderr) : stderr[k].t = t }

Terminated == stderr # <<>> /\ stderr[Len(stderr)].t = "nl"

C15_State ==
  pc \notin {"args", "root", "scan", "exited"} \/ exit_code = Some(0) =>
    /\ config.plain => stderr = <<>>
    /\ ~config.plain =>
         /\ Cardinality(Written("nl")) <= 1
         /\ Written("nl") # {} => Terminated
         /\ \A k \in 1..Len(stderr) : stderr[k].t \in {"status", "nl"}
         /\ Terminated <=> pc \in {"largest", "returned", "reported", "exited"}
         /\ stdout # <<>> => Terminated

C15_Step ==
  /\ (Len(stderr') > Len(stderr) /\ stderr'[Len(stderr')].t = "nl") =>
       /\ chan = <<>> /\ processed = sent /\ senders = 0
       /\ \A w \in Workers : wk[w].pc = "done"
       /\ stdout = <<>>
  /\ (Terminated \/ stdout # <<>>) => stderr' = stderr

\* C15: in non-plain mode a line terminator is written to standard error
\* after the last status update and after the last record has been folded,
\* and before print_report writes anything: once the terminator is written
\* or the report has started, standard error is not written again.  In plain
\* mode the scan writes nothing to standard error.
C15_StatusLineTerminated == [](C15_State) /\ [][C15_Step]_vars

\* a non-plain run that wrote two status updates, then the terminator, and
\* has printed its report
C15_Witness ==
  /\ stdout # <<>>
  /\ ~config.plain
  /\ Len(stderr) = 3
  /\ stderr[1].t = "status" /\ stderr[2].t = "status" /\ stderr[3].t = "nl"

(* ------------------------------- C16 ---------------------------------- *)
\* a step of a worker: it changes the worker's own state, or takes an entry
WorkerMoved == wk' # wk \/ todo' # todo

C16_Step ==
  /\ config' = config
  /\ WorkerMoved =>
       /\ UNCHANGED <<summary, dir_sizes, processed, spinner_idx, stderr,
                      pc, rxAlive>>
       /\ chan' = chan \/ (Len(chan') = Len(chan) + 1 /\
                            SubSeq(chan', 1, Len(chan)) = chan)
  /\ (summary' # summary \/ dir_sizes' # dir_sizes) =>
       /\ pc \in {"fold", "largest"}
       /\ ~WorkerMoved
       /\ \A w \in Workers : wk[w].pc = "done"

\* C16: Summary and the per-directory totals are changed only by the main
\* thread's fold and final pass: every step of a worker leaves Summary,
\* dir_sizes and the rest of the main thread's state unchanged, the only
\* thing it changes that the main thread reads is the channel (one record
\* appended), and Config is never modified.
C16_OnlyAggregatorMutates == [][C16_Step]_vars

\* the workers have sent two records and finished, and the totals are still
\* those of Summary::default()
C16_Witness ==
  /\ pc = "walk"
  /\ Len(chan) = 2
  /\ chan[1].size > 0
  /\ \A w \in Workers : wk[w].pc = "done"
  /\ summary = SummaryDefault
  /\ dir_sizes = EmptyMap

(* ------------------------------- C17 ---------------------------------- *)
\* the number of newline bytes in a content
Newlines(content) ==
  Cardinality({ k \in 1..Len(content) : content[k] = "n" })

\* C17: for a readable file, count_lines_fast returns the number of newline
\* bytes k when the content is empty or ends with a newline, and k + 1 when
\* bytes follow the last newline (or the content is not empty and has no
\* newline); the result is the same whatever the scratch buffer held.
C17_LineCount ==
  (call # None /\ ret # None) =>
    LET content == call[1].content
        k == Newlines(content)
    IN  /\ ret[1].ok
        /\ ret[1].lines =
             IF content = <<>> \/ content[Len(content)] = "n"
               THEN k ELSE k + 1
        /\ \A b \in Contents :
             count_lines_fast(content, b, 0).lines = ret[1].lines

\* a content with a newline followed by more bytes, counted as two lines
\* with a scratch buffer that was not empty
C17_Witness ==
  /\ call # None /\ ret # None
  /\ call[1].content = <<"x", "n", "x">>
  /\ call[1].buf # <<>>
  /\ ret[1].lines = 2

(* ------------------------------- C18 ---------------------------------- *)
AllWorkersDone == \A w \in Workers : wk[w].pc = "done"

NothingFolded ==
  /\ processed = <<>>
  /\ chan = sent
  /\ summary = SummaryDefault
  /\ dir_sizes = EmptyMap
  /\ stderr = <<>>

C18_State ==
  /\ ~AllWorkersDone => pc = "walk" /\ NothingFolded
  /\ pc \in {"walk", "drop"} => NothingFolded
  /\ pc \notin {"walk", "drop"} => AllWorkersDone /\ senders = 0

C18_Step ==
  /\ (processed = <<>> /\ processed' # <<>>) =>
       /\ pc = "fold"
       /\ AllWorkersDone /\ senders = 0
       /\ chan = sent /\ Len(chan) = Len(sent)
       /\ processed' = <<sent[1]>>
  /\ pc # "walk" => sent' = sent

\* C18: the fold never overlaps the traversal: while a worker is still
\* running no record is received or folded and no status is written; the
\* first record is consumed only after the walk has returned and the
\* original sender was dropped, when the channel holds every record that
\* will ever be sent (as many buffered as were sent).
C18_FoldAfterTraversal == [](C18_State) /\ [][C18_Step]_vars

\* the first of two records has been consumed, the second is still buffered
C18_Witness ==
  /\ pc \in {"fold", "draw"}
  /\ Len(sent) = 2
  /\ processed = <<sent[1]>>
  /\ chan = <<sent[2]>>

(* ------------------------------- C19 ---------------------------------- *)
C19_State ==
  /\ \A w \in Workers : wk[w].pc = "send" => rxAlive /\ pc = "walk"
  /\ pc \in {"walk", "drop", "fold", "draw"} => rxAlive
  /\ ~quit_now
  /\ \A w \in Workers : wk[w].pc # "quit"
  /\ AllWorkersDone => todo = {}

C19_Step ==
  \A w \in Workers :
    (wk[w].pc = "send" /\ wk'[w] # wk[w]) =>
      /\ Len(sent') = Len(sent) + 1
      /\ Len(chan') = Len(chan) + 1
      /\ sent'[Len(sent')].path = wk[w].path
      /\ wk'[w].pc = "idle"

\* C19: whenever a worker executes a send the Receiver is alive (scan_dir
\* owns it and consumes it only after the walk returned), so no send fails,
\* no callback returns Quit, and the workers stop only when every entry has
\* been delivered.
C19_ReceiverOutlivesSenders == [](C19_State) /\ [][C19_Step]_vars

\* a worker is about to send while the record another send delivered is
\* buffered and the Receiver is alive
C19_Witness ==
  /\ \E w \in Workers : wk[w].pc = "send"
  /\ Len(sent) = 1 /\ chan = sent
  /\ rxAlive

(* ------------------------------- C20 ---------------------------------- *)
\* the result is within max chars: s itself when it fits, nothing when
\* max = 0, and otherwise exactly max chars: the first floor((max-1)/2)
\* chars of s, the ellipsis, and the last (max-1) - floor((max-1)/2)
C20_Shape(s, max, out) ==
  LET front == (max - 1) \div 2
      back == (max - 1) - front
  IN  /\ Len(out) <= max
      /\ max = 0 => out = <<>>
      /\ (max > 0 /\ Len(s) <= max) => out = s
      /\ (max > 0 /\ Len(s) > max) =>
           /\ Len(out) = max
           /\ \A k \in 1..front : out[k] = s[k]
           /\ out[front + 1] = Ellipsis
           /\ \A k \in 1..back : out[front + 1 + k] = s[Len(s) - back + k]

\* the first and the last char of s are the first and the last of out
BothEndsVisible(s, out) ==
  out # <<>> /\ out[1] = s[1] /\ out[Len(out)] = s[Len(s)]

====
